---- MODULE Spec2Model ----
(***************************************************************************)
(* Job orchestration of the K6 performance analyzer: the jobs table, the   *)
(* JobService operations (create_job, update_job_status, retry_job), the   *)
(* HTTP handlers that create and retry jobs, and the Celery worker tasks   *)
(* that drive a job through its statuses.                                  *)
(*                                                                         *)
(* Every JobService operation is a read-modify-write on an ORM object: a   *)
(* SELECT loads the row into the session (the snapshot), the attributes    *)
(* are assigned in Python, and the commit flushes an UPDATE that carries   *)
(* only the columns whose value differs from the snapshot.  The SELECT,    *)
(* the UPDATE and the refresh are separate database round trips (awaits),  *)
(* so operations of different sessions interleave between them.            *)
(*                                                                         *)
(* The database and the broker are taken to be available: a statement or   *)
(* a commit does not fail for reasons outside the program.                 *)
(***************************************************************************)
EXTENDS Integers, FiniteSets, Sequences, TLC

\* ---------------------------------------------------------------- bounds
MaxWorkers == 2         \* worker processes of the pool
MaxSessions == 2        \* concurrent HTTP/service sessions calling retry_job
MaxRetryCalls == 2      \* retry_job calls in one behaviour
MaxRedeliveries == 1    \* broker redeliveries of an unacknowledged task
MaxClock == 5           \* readings of the wall clock in one behaviour
MaxIngestSessions == 2  \* concurrent requests that ingest the same uploaded file
MaxChunks == 2          \* chunks the chunk generator yields for a file
MaxChunkRows == 2       \* records in the dataframe of one chunk
MaxLines == 3           \* lines of a JSON file given to the reader
MaxChunkSize == 2       \* largest chunk_size given to the reader
MaxStream == 2          \* canonical records in a stream given to the aggregators
MaxSize == 2            \* largest capacity of a ReservoirSampler
MaxUpdates == 4         \* update calls on a ReservoirSampler

\* The model follows one row of the jobs table: every operation of
\* JobService addresses exactly one row, by its primary key, and none reads
\* or writes another row.
JobIds == {1}
Workers == 1..MaxWorkers
Sessions == 1..MaxSessions

\* ---------------------------------------------------------------- values
Null == 0                       \* NULL timestamp; clock readings are >= 1
NoText == "null"                \* NULL error_details
NoResult == "null"              \* NULL result_data
JobType == {"ingestion", "analysis", "qa"}
JobStatus == {"pending", "in_progress", "completed", "failed"}
Terminal == {"completed", "failed"}
ErrSetup == "TypeError"         \* AnalysisService(session): __init__ takes no session
ErrPipeline == "pipeline failed"
ResultOk == "result"
ErrSoftLimit == "SoftTimeLimitExceeded()"   \* str() of the soft time limit exception

\* A row of the jobs table (Job); exists = FALSE before the INSERT.
NewJob(kind) ==
  [exists |-> TRUE, job_type |-> kind, status |-> "pending",
   started_at |-> Null, finished_at |-> Null,
   result_data |-> NoResult, error_details |-> NoText,
   retry_count |-> 0, can_retry |-> TRUE]

NoJob == [NewJob("ingestion") EXCEPT !.exists = FALSE]

\* Columns an UPDATE of the ORM can carry.
Columns == {"status", "started_at", "finished_at", "result_data",
            "error_details", "retry_count", "can_retry"}

\* session.commit(): the flush emits UPDATE jobs SET <changed columns>; a
\* column whose attribute equals the loaded value is not part of the UPDATE.
Flush(row, snap, obj) ==
  [f \in DOMAIN row |->
     IF f \in Columns /\ obj[f] # snap[f] THEN obj[f] ELSE row[f]]

\* update_job_status that forbids a retry once an error is recorded.
UpdateAttrs_NoRetryAfterError(job, status, started_at, finished_at, error_details, result_data) ==
  LET j1 == [job EXCEPT !.status = status]
      j2 == IF started_at # Null THEN [j1 EXCEPT !.started_at = started_at] ELSE j1
      j3 == IF finished_at # Null THEN [j2 EXCEPT !.finished_at = finished_at] ELSE j2
      j4 == IF error_details # NoText
              THEN [j3 EXCEPT !.error_details = error_details, !.can_retry = FALSE]
              ELSE j3
  IN  IF result_data # NoResult THEN [j4 EXCEPT !.result_data = result_data] ELSE j4

\* JobService.update_job_status, the attribute assignments (lines 105-115).
UpdateAttrs(job, status, started_at, finished_at, error_details, result_data) ==
  LET j1 == [job EXCEPT !.status = status]
      j2 == IF started_at # Null THEN [j1 EXCEPT !.started_at = started_at] ELSE j1
      j3 == IF finished_at # Null THEN [j2 EXCEPT !.finished_at = finished_at] ELSE j2
      j4 == IF error_details # NoText
              THEN [j3 EXCEPT !.error_details = error_details, !.can_retry = TRUE]
              ELSE j3
  IN  IF result_data # NoResult THEN [j4 EXCEPT !.result_data = result_data] ELSE j4

\* retry_job without the check that the job is failed.
RetryAllowed_NoStatusCheck(job, force_retry) ==
  ~(~force_retry /\ ~job.can_retry)

\* JobService.retry_job, the two guards (lines 139-144): TRUE when neither raises.
RetryAllowed(job, force_retry) ==
  /\ ~(~force_retry /\ ~job.can_retry)
  /\ ~(~force_retry /\ job.status # "failed")

\* retry_job that forgets to clear finished_at.
RetryAttrs_KeepFinished(job) ==
  [job EXCEPT !.status = "pending",
              !.retry_count = job.retry_count + 1,
              !.error_details = NoText,
              !.started_at = Null]

\* JobService.retry_job, the attribute assignments (lines 146-150).
RetryAttrs(job) ==
  [job EXCEPT !.status = "pending",
              !.retry_count = job.retry_count + 1,
              !.error_details = NoText,
              !.started_at = Null,
              !.finished_at = Null]

\* Set-up of a worker task before its try block: the ingestion task builds
\* JobService(session) and IngestionService(session); the analysis and qa
\* tasks call AnalysisService(session), whose __init__ takes no argument.
SetupRaises(kind) == kind \in {"analysis", "qa"}

\* ----------------------------------------------------------------- state
VARIABLES
  jobs,          \* jobs table: job id -> row
  queue,         \* broker: job id -> number of task messages ready for delivery
  wk,            \* worker -> the task execution it is in
  rs,            \* session -> the retry_job call it is in
  lastCall,      \* the retry_job call started last: its arguments and outcome
  clock,         \* next reading of the wall clock
  runs,          \* job id -> number of times a worker ran the pipeline for it
  okRetries,     \* job id -> number of retry_job calls that returned a job
  retryCalls,    \* retry_job calls started so far
  redeliveries   \* broker redeliveries so far

\* The ingestion of an uploaded file (IngestionService, request_logs).
VARIABLES
  ijob,          \* the row of ingestion_jobs the model follows
  request_logs,  \* committed rows of request_logs that carry the job's id
  upfile,        \* the uploaded file: its chunks as the chunk generator yields them
  ing            \* request session -> the ingest_file_to_db call it is in

\* The JSON reader (normalizer_k6_json) applied to one file.
VARIABLES
  lines,         \* the lines of the file
  chunk_size,    \* the chunk_size argument
  nr             \* the generator: position, buffer, dataframes yielded, outcome

\* The in-memory statistics (StreamingStats, ReservoirSampler and the two
\* aggregators of eda/metrics.py).
VARIABLES
  stream,        \* the canonical records to aggregate, in order
  fed,           \* the lengths of the chunks the aggregators have received
  gagg,          \* the GlobalMetricsAggregator
  eagg,          \* the EndpointMetricsAggregator: url -> its entry of self.data
  rsv,           \* a ReservoirSampler
  upd            \* the values passed to rsv.update so far, in order

jobVars == <<jobs, queue, wk, rs, lastCall, clock, runs, okRetries, retryCalls,
             redeliveries>>
ingVars == <<ijob, request_logs, upfile, ing>>
normVars == <<lines, chunk_size, nr>>
aggVars == <<stream, fed, gagg, eagg, rsv, upd>>
vars == <<jobVars, ingVars, normVars, aggVars>>

\* What an operation on the jobs table leaves alone.
OutsideJobs == <<ingVars, normVars, aggVars>>

IdleWorker == [pc |-> "idle", job |-> 0, snap |-> NoJob, now |-> Null, err |-> NoText]
IdleSession == [pc |-> "idle", job |-> 0, force |-> FALSE, via |-> "none",
                snap |-> NoJob]
NoCall == [job |-> 0, force |-> FALSE, req_force |-> FALSE, via |-> "none",
           result |-> "none"]

\* Workers of the pool, and request sessions, are interchangeable: the
\* free one with the lowest number takes the next task or request.
FirstIdle(procs, S, p) ==
  procs[p].pc = "idle" /\ \A q \in S : q < p => procs[q].pc # "idle"

\* ------------------------------------------------- ingestion: the values
IngestSessions == 1..MaxIngestSessions
Stamp == 1                      \* a reading of datetime.utcnow()
ErrIngest == "ingest error"     \* str(e) of an exception inside ingest_file_to_db

\* The row save_upload_file inserts into ingestion_jobs (lines 53-65);
\* exists = FALSE before the INSERT.
NewIngestionJob ==
  [exists |-> TRUE, status |-> "pending", rows_ingested |-> 0, total_rows |-> 0,
   started_at |-> Null, finished_at |-> Null, error_details |-> NoText]

NoIngestionJob == [NewIngestionJob EXCEPT !.exists = FALSE]

\* A request session before it calls the route: total_rows is the local
\* counter of ingest_file_to_db, staged the rows the session has flushed
\* inside its open transaction, i the next chunk of the generator.
IdleIngest == [pc |-> "idle", i |-> 1, total_rows |-> 0, staged |-> 0]

\* An uploaded file as ingest_file_to_db sees it: the number of records of
\* each dataframe the chunk generator yields (0: an empty dataframe, which
\* the CSV generator can yield).
Files ==
  UNION {[1..n -> 0..MaxChunkRows] : n \in 0..MaxChunks}

RECURSIVE SumSeq(_)
SumSeq(q) == IF q = <<>> THEN 0 ELSE Head(q) + SumSeq(Tail(q))

\* ---------------------------------------------------- reader: the values
\* normalizer_k6_json before its first line: i lines read, out the sequence
\* of dataframes yielded so far.
IdleReader == [pc |-> "idle", i |-> 0, out |-> <<>>]

\* -------------------------------------------------- statistics: the values
\* A number a metric can report: null (None), or the rational num / den.
NullNum == [null |-> TRUE, num |-> 0, den |-> 1]
Num(a, b) == [null |-> FALSE, num |-> a, den |-> b]
NumEq(x, y) == x.null = y.null /\ (x.null \/ x.num * y.den = y.num * x.den)

Inf == 1000                     \* float("inf"), above every value of the model

\* StreamingStats.__init__ (utility.py:5-10).  The mean is kept as the sum
\* of the values over n; M2 is not followed (no metric reports the variance).
NewStats == [n |-> 0, sum |-> 0, min_val |-> Inf, max_val |-> -Inf]

\* ReservoirSampler.__init__ (utility.py:43-46).
NewSampler(size) == [size |-> size, sample |-> <<>>, count |-> 0]

\* The urls and status codes of the canonical records of the model; NaNText
\* is the url of a record whose url is missing.
Urls == {"/a", "/b"}
StatusCodes == {200, 500}

\* GlobalMetricsAggregator.__init__ (metrics.py:7-21); status_code_counts is
\* the Counter: status code -> count.
NewGlobal ==
  [total_requests |-> 0, success_count |-> 0, request_status_error |-> 0,
   seen |-> FALSE, min_timestamp |-> 0, max_timestamp |-> 0,
   status_code_counts |-> [c \in StatusCodes |-> 0],
   response_stats |-> NewStats, response_sample |-> <<>>]

\* The default entry of EndpointMetricsAggregator.data (metrics.py:83-107).
NewEndpoint ==
  [total_requests |-> 0, success_count |-> 0, request_status_error |-> 0,
   seen |-> FALSE, min_timestamp |-> 0, max_timestamp |-> 0,
   s200 |-> 0, s300 |-> 0, s400 |-> 0, s500 |-> 0,
   response_stats |-> NewStats, response_sample |-> <<>>,
   blocked_ms_stats |-> NewStats, waiting_ms_stats |-> NewStats]

\* The state of the parts of the program a specification does not exercise.
JobsAtRest ==
  /\ jobs = [j \in JobIds |-> NoJob]
  /\ queue = [j \in JobIds |-> 0]
  /\ wk = [w \in Workers |-> IdleWorker]
  /\ rs = [r \in Sessions |-> IdleSession]
  /\ lastCall = NoCall
  /\ clock = 1
  /\ runs = [j \in JobIds |-> 0]
  /\ okRetries = [j \in JobIds |-> 0]
  /\ retryCalls = 0
  /\ redeliveries = 0

IngestAtRest ==
  /\ ijob = NoIngestionJob
  /\ request_logs = 0
  /\ upfile = <<>>
  /\ ing = [s \in IngestSessions |-> IdleIngest]

ReaderAtRest ==
  /\ lines = <<>>
  /\ chunk_size = 1
  /\ nr = IdleReader

StatsAtRest ==
  /\ stream = <<>>
  /\ fed = <<>>
  /\ gagg = NewGlobal
  /\ eagg = [u \in Urls |-> NewEndpoint]
  /\ rsv = NewSampler(0)
  /\ upd = <<>>

Init ==
  /\ jobs = [j \in JobIds |-> NoJob]
  /\ queue = [j \in JobIds |-> 0]
  /\ wk = [w \in Workers |-> IdleWorker]
  /\ rs = [r \in Sessions |-> IdleSession]
  /\ lastCall = NoCall
  /\ clock = 1
  /\ runs = [j \in JobIds |-> 0]
  /\ okRetries = [j \in JobIds |-> 0]
  /\ retryCalls = 0
  /\ redeliveries = 0
  /\ IngestAtRest
  /\ ReaderAtRest
  /\ StatsAtRest

\* -------------------------------------------------------- HTTP: create job
\* upload_file / analyze_report_async / ask_question_async: create_job
\* commits the row (status pending), then <task>.delay(job.id, ...) publishes
\* the task.  When delay raises, the handler answers 500 and the row stays.
CreateJob(j, kind, enqueued) ==
  /\ ~jobs[j].exists
  /\ jobs' = [jobs EXCEPT ![j] = NewJob(kind)]
  /\ queue' = [queue EXCEPT ![j] = IF enqueued THEN @ + 1 ELSE @]
  /\ UNCHANGED <<wk, rs, lastCall, clock, runs, okRetries, retryCalls, redeliveries>>
  /\ UNCHANGED OutsideJobs

\* --------------------------------------------------------------- retry_job
\* JobService.retry_job up to its first await after the SELECT: the row is
\* loaded and both guards are evaluated.  When the job is missing or a guard
\* raises, the except block rolls back and re-raises: the call is over and
\* nothing was written.  Otherwise the attributes are assigned on the loaded
\* object and the call goes on to its commit.
RetryJobBegin(r, j, force_retry, req_force, via) ==
  /\ FirstIdle(rs, Sessions, r)
  /\ retryCalls < MaxRetryCalls
  /\ retryCalls' = retryCalls + 1
  /\ LET accepted == jobs[j].exists /\ RetryAllowed(jobs[j], force_retry) IN
       /\ lastCall' = [job |-> j, force |-> force_retry, req_force |-> req_force,
                       via |-> via,
                       result |-> IF accepted THEN "loaded" ELSE "error"]
       /\ rs' = IF accepted
                  THEN [rs EXCEPT ![r] = [pc |-> "loaded", job |-> j,
                                          force |-> force_retry, via |-> via,
                                          snap |-> jobs[j]]]
                  ELSE rs
  /\ UNCHANGED <<jobs, queue, wk, clock, runs, okRetries, redeliveries>>
  /\ UNCHANGED OutsideJobs

\* POST /jobs/{job_id}/retry: the handler calls job_service.retry_job(job_id);
\* the force_retry of the request body is not passed on, so the parameter
\* takes its default, False.
RouterRetry(r, j, req_force) == RetryJobBegin(r, j, FALSE, req_force, "router")

\* session.commit() and refresh of retry_job; the call returns the job and
\* the handler answers.  Nothing is published to the broker ("TODO: trigger
\* celery task").
RetryJobCommit(r) ==
  /\ rs[r].pc = "loaded"
  /\ LET j == rs[r].job IN
       /\ jobs' = [jobs EXCEPT ![j] = Flush(@, rs[r].snap, RetryAttrs(rs[r].snap))]
       /\ okRetries' = [okRetries EXCEPT ![j] = @ + 1]
  /\ rs' = [rs EXCEPT ![r] = IdleSession]
  /\ UNCHANGED <<queue, wk, lastCall, clock, runs, retryCalls, redeliveries>>
  /\ UNCHANGED OutsideJobs

\* ------------------------------------------------------------ worker tasks
\* The broker hands a ready message to a free worker; the task wrapper starts
\* asyncio.run(...), which opens a session and builds the services.  An
\* error here is outside the try block of the task: it leaves the job as is.
\* Otherwise the task calls update_job_status(job_id, in_progress,
\* started_at=now), which begins with the SELECT of the row.
Deliver(w, j) ==
  /\ FirstIdle(wk, Workers, w)
  /\ queue[j] > 0
  /\ queue' = [queue EXCEPT ![j] = @ - 1]
  /\ IF SetupRaises(jobs[j].job_type)
       THEN /\ wk' = [wk EXCEPT ![w] =
                 [IdleWorker EXCEPT !.pc = "raised", !.job = j, !.err = ErrSetup]]
            /\ clock' = clock
       ELSE /\ clock < MaxClock
            /\ clock' = clock + 1
            /\ wk' = [wk EXCEPT ![w] =
                 [IdleWorker EXCEPT !.pc = "start_commit", !.job = j,
                                    !.now = clock, !.snap = jobs[j]]]
  /\ UNCHANGED <<jobs, rs, lastCall, runs, okRetries, retryCalls, redeliveries>>
  /\ UNCHANGED OutsideJobs

\* ... the assignments and the commit of that update_job_status.
WorkerStartCommit(w) ==
  /\ wk[w].pc = "start_commit"
  /\ LET j == wk[w].job
         obj == UpdateAttrs(wk[w].snap, "in_progress", wk[w].now, Null, NoText, NoResult)
     IN  jobs' = [jobs EXCEPT ![j] = Flush(@, wk[w].snap, obj)]
  /\ wk' = [wk EXCEPT ![w].pc = "start_refresh", ![w].now = Null]
  /\ UNCHANGED <<queue, rs, lastCall, clock, runs, okRetries, retryCalls, redeliveries>>
  /\ UNCHANGED OutsideJobs

\* ... its session.refresh(job): the object now holds the committed row.
WorkerStartRefresh(w) ==
  /\ wk[w].pc = "start_refresh"
  /\ wk' = [wk EXCEPT ![w].pc = "pipeline", ![w].snap = jobs[wk[w].job]]
  /\ UNCHANGED <<jobs, queue, rs, lastCall, clock, runs, okRetries, retryCalls,
                 redeliveries>>
  /\ UNCHANGED OutsideJobs

\* The pipeline of the task (ingest_file_to_db_with_staging): it returns or
\* raises.
WorkerPipeline(w, ok) ==
  /\ wk[w].pc = "pipeline"
  /\ runs' = [runs EXCEPT ![wk[w].job] = @ + 1]
  /\ wk' = [wk EXCEPT ![w].pc = "finish",
                      ![w].err = IF ok THEN NoText ELSE ErrPipeline]
  /\ UNCHANGED <<jobs, queue, rs, lastCall, clock, okRetries, retryCalls, redeliveries>>
  /\ UNCHANGED OutsideJobs

\* task_soft_time_limit: after 1800 s the worker's signal handler raises
\* SoftTimeLimitExceeded in the thread that runs asyncio.run(...).  Raised
\* inside a step of the coroutine it reaches the except block of the task,
\* which records str(e); raised while the event loop itself is executing it
\* leaves run_until_complete without passing through the coroutine, and
\* only the wrapper's except block (log and re-raise) sees it.
SoftTimeLimit(w, caught) ==
  /\ wk[w].pc = "pipeline"
  /\ runs' = [runs EXCEPT ![wk[w].job] = @ + 1]
  /\ wk' = [wk EXCEPT ![w].pc = IF caught THEN "finish" ELSE "raised",
                      ![w].err = ErrSoftLimit,
                      ![w].snap = IF caught THEN @ ELSE NoJob]
  /\ UNCHANGED <<jobs, queue, rs, lastCall, clock, okRetries, retryCalls, redeliveries>>
  /\ UNCHANGED OutsideJobs

\* A commit or rollback inside the pipeline may expire the session's
\* objects; the next get_job_by_id then loads the row again.  Without it the
\* object keeps the attributes of the last refresh.
WorkerReload(w) ==
  /\ wk[w].pc = "finish"
  /\ wk[w].snap # jobs[wk[w].job]
  /\ wk' = [wk EXCEPT ![w].snap = jobs[wk[w].job]]
  /\ UNCHANGED <<jobs, queue, rs, lastCall, clock, runs, okRetries, retryCalls,
                 redeliveries>>
  /\ UNCHANGED OutsideJobs

\* update_job_status(completed, finished_at=now, result_data=...) after the
\* pipeline returned, or update_job_status(failed, finished_at=now,
\* error_details=str(e)) in the except block, which re-raises.
WorkerFinish(w) ==
  /\ wk[w].pc = "finish"
  /\ clock < MaxClock
  /\ clock' = clock + 1
  /\ LET j == wk[w].job
         obj == IF wk[w].err = NoText
                  THEN UpdateAttrs(wk[w].snap, "completed", Null, clock, NoText, ResultOk)
                  ELSE UpdateAttrs(wk[w].snap, "failed", Null, clock, wk[w].err, NoResult)
     IN  jobs' = [jobs EXCEPT ![j] = Flush(@, wk[w].snap, obj)]
  /\ wk' = [wk EXCEPT ![w].pc = IF wk[w].err = NoText THEN "returned" ELSE "raised",
                      ![w].snap = NoJob]
  /\ UNCHANGED <<queue, rs, lastCall, runs, okRetries, retryCalls, redeliveries>>
  /\ UNCHANGED OutsideJobs

\* task_acks_late: the message is acknowledged once the task has returned or
\* raised; the worker is free again.
Ack(w) ==
  /\ wk[w].pc \in {"returned", "raised"}
  /\ wk' = [wk EXCEPT ![w] = IdleWorker]
  /\ UNCHANGED <<jobs, queue, rs, lastCall, clock, runs, okRetries, retryCalls,
                 redeliveries>>
  /\ UNCHANGED OutsideJobs

\* At-least-once delivery: a message that is not yet acknowledged becomes
\* ready again, because the worker process was lost
\* (task_reject_on_worker_lost) or because the broker connection dropped
\* while the task keeps running.
Redeliver(w, lost) ==
  /\ wk[w].pc # "idle"
  /\ redeliveries < MaxRedeliveries
  /\ redeliveries' = redeliveries + 1
  /\ queue' = [queue EXCEPT ![wk[w].job] = @ + 1]
  /\ wk' = IF lost THEN [wk EXCEPT ![w] = IdleWorker] ELSE wk
  /\ UNCHANGED <<jobs, rs, lastCall, clock, runs, okRetries, retryCalls>>
  /\ UNCHANGED OutsideJobs

Next ==
  \/ \E j \in JobIds, kind \in JobType, enqueued \in BOOLEAN : CreateJob(j, kind, enqueued)
  \/ \E r \in Sessions, j \in JobIds, f \in BOOLEAN : RouterRetry(r, j, f)
  \/ \E r \in Sessions : RetryJobCommit(r)
  \/ \E w \in Workers, j \in JobIds : Deliver(w, j)
  \/ \E w \in Workers : WorkerStartCommit(w)
  \/ \E w \in Workers : WorkerStartRefresh(w)
  \/ \E w \in Workers, ok \in BOOLEAN : WorkerPipeline(w, ok)
  \/ \E w \in Workers, caught \in BOOLEAN : SoftTimeLimit(w, caught)
  \/ \E w \in Workers : WorkerReload(w)
  \/ \E w \in Workers : WorkerFinish(w)
  \/ \E w \in Workers : Ack(w)
  \/ \E w \in Workers, lost \in BOOLEAN : Redeliver(w, lost)

Spec == Init /\ [][Next]_vars

\* ------------------------------------------- retry_job as a single operation
\* The contract of JobService.retry_job(job_id, force_retry) on its own: the
\* calls are made one after the other, with either value of force_retry, on
\* rows of any content the table's columns admit.
JobRows ==
  [exists : {TRUE}, job_type : {"ingestion"}, status : JobStatus,
   started_at : {Null, 1}, finished_at : {Null, 2},
   result_data : {NoResult, ResultOk}, error_details : {NoText, ErrPipeline},
   retry_count : {0, 1}, can_retry : BOOLEAN]

InitRetryJob ==
  /\ jobs \in [JobIds -> JobRows]
  /\ queue = [j \in JobIds |-> 0]
  /\ wk = [w \in Workers |-> IdleWorker]
  /\ rs = [r \in Sessions |-> IdleSession]
  /\ lastCall = NoCall
  /\ clock = 3
  /\ runs = [j \in JobIds |-> 0]
  /\ okRetries = [j \in JobIds |-> 0]
  /\ retryCalls = 0
  /\ redeliveries = 0
  /\ IngestAtRest
  /\ ReaderAtRest
  /\ StatsAtRest

ServiceRetry(r, j, force_retry) ==
  /\ \A r2 \in Sessions : rs[r2].pc = "idle"
  /\ RetryJobBegin(r, j, force_retry, force_retry, "service")

NextRetryJob ==
  \/ \E r \in Sessions, j \in JobIds, f \in BOOLEAN : ServiceRetry(r, j, f)
  \/ \E r \in Sessions : RetryJobCommit(r)

SpecRetryJob == InitRetryJob /\ [][NextRetryJob]_vars

\* ------------------------------------------------------------------ claims
\* A step in which a retry_job call of job j commits and returns.
RetryCommits(j) ==
  \E r \in Sessions : rs[r].pc = "loaded" /\ rs'[r].pc = "idle" /\ rs[r].job = j

\* A step in which a retry_job call starts.
RetryCalled == retryCalls' = retryCalls + 1

\* C1: once a job's status is completed or failed, the only operation that
\* changes the status is retry_job, and it sets pending; update_job_status
\* on a job in a terminal status does not change the status.
C1_TerminalLeftOnlyByRetry ==
  [][\A j \in JobIds :
       (jobs[j].status \in Terminal /\ jobs'[j].status # jobs[j].status)
         => (jobs'[j].status = "pending" /\ RetryCommits(j))]_vars

\* C2: a worker task whose first load of the job finds the status completed
\* or failed rejects the task: its next step ends the task, the pipeline is
\* not run and the row is left as it is.
C2_TerminalTaskRejected ==
  [][\A w \in Workers :
       (/\ wk[w].pc = "start_commit"
        /\ wk[w].snap.status \in Terminal
        /\ wk'[w].pc \notin {"start_commit", "idle"})
         => (/\ wk'[w].pc \in {"returned", "raised"}
             /\ jobs' = jobs
             /\ runs' = runs)]_vars

\* C3: a task execution that ended with an error has left its job in status
\* failed, with finished_at set and error_details equal to the message.
C3_ErrorEndsFailed ==
  \A w \in Workers :
    wk[w].pc = "raised" =>
      /\ jobs[wk[w].job].status = "failed"
      /\ jobs[wk[w].job].finished_at # Null
      /\ jobs[wk[w].job].error_details = wk[w].err

\* C4: a retry_job call that succeeds sets status to pending, increases
\* retry_count by exactly 1 and sets started_at, finished_at and
\* error_details to null; it succeeds only if can_retry is true or
\* force_retry is set.
C4_RetryEffect ==
  [][\A r \in Sessions :
       (rs[r].pc = "loaded" /\ rs'[r].pc = "idle") =>
         LET j == rs[r].job IN
           /\ jobs'[j].status = "pending"
           /\ jobs'[j].retry_count = jobs[j].retry_count + 1
           /\ jobs'[j].started_at = Null
           /\ jobs'[j].finished_at = Null
           /\ jobs'[j].error_details = NoText
           /\ (jobs[j].can_retry \/ rs[r].force)]_vars

\* A retry without force has returned the job: the row, which was failed
\* with retry_count 1, is pending with retry_count 2 and no timestamps.
C4_Witness ==
  /\ lastCall.result = "loaded" /\ ~lastCall.force
  /\ \A r \in Sessions : rs[r].pc = "idle"
  /\ okRetries[lastCall.job] = 1
  /\ jobs[lastCall.job].status = "pending"
  /\ jobs[lastCall.job].retry_count = 2
  /\ jobs[lastCall.job].started_at = Null
  /\ jobs[lastCall.job].finished_at = Null

\* C5: a retry_job call with force_retry false on a job that is not failed,
\* or whose can_retry is false, fails with an error, and the failed call
\* leaves every field of the job unchanged (it ends without a commit).
C5_RetryRejected ==
  [][(/\ RetryCalled
      /\ ~lastCall'.force
      /\ (\/ jobs[lastCall'.job].status # "failed"
          \/ ~jobs[lastCall'.job].can_retry))
       => (lastCall'.result = "error" /\ jobs' = jobs /\ rs' = rs)]_vars

\* A retry without force of a failed job whose can_retry is false has been
\* refused.
C5_Witness ==
  /\ lastCall.result = "error"
  /\ ~lastCall.force
  /\ jobs[lastCall.job].status = "failed"
  /\ ~jobs[lastCall.job].can_retry
  /\ okRetries[lastCall.job] = 0
  /\ retryCalls = 1

\* C6: retry_count equals the number of retry_job calls that returned
\* successfully, also when the calls run concurrently.
C6_RetryCountCountsRetries ==
  \A j \in JobIds : jobs[j].exists => jobs[j].retry_count = okRetries[j]

\* C7: a POST /jobs/{job_id}/retry whose body has force_retry = true is
\* accepted for an existing job whatever its status and can_retry.
C7_ForceRetryAccepted ==
  [][(/\ RetryCalled
      /\ lastCall'.via = "router" /\ lastCall'.req_force
      /\ jobs[lastCall'.job].exists)
       => lastCall'.result = "loaded"]_vars

\* C8: the handler of a successful POST retry hands a task for the job to
\* the broker before it answers.
C8_RetryEnqueuesTask ==
  [][\A r \in Sessions :
       (rs[r].pc = "loaded" /\ rs[r].via = "router" /\ rs'[r].pc = "idle")
         => queue'[rs[r].job] = queue[rs[r].job] + 1]_vars

\* C9: started_at and finished_at are both null exactly when the status is
\* pending.
C9_NullTimestampsIffPending ==
  \A j \in JobIds :
    jobs[j].exists =>
      ((jobs[j].started_at = Null /\ jobs[j].finished_at = Null)
         <=> jobs[j].status = "pending")

\* C10: when started_at and finished_at are both set, started_at <= finished_at.
C10_StartedBeforeFinished ==
  \A j \in JobIds :
    (jobs[j].started_at # Null /\ jobs[j].finished_at # Null)
      => jobs[j].started_at <= jobs[j].finished_at

\* C11: when the enqueue of the worker task fails after create_job has
\* committed the row (upload, analyze-async, ask-async), the handler marks
\* the row failed: no job created by such a request is left pending.
C11_EnqueueFailureMarksFailed ==
  [][\A j \in JobIds :
       (~jobs[j].exists /\ jobs'[j].exists /\ queue'[j] = queue[j])
         => (jobs'[j].status = "failed" /\ jobs'[j].error_details # NoText)]_vars

\* C12: a task is acknowledged only when the row of its job holds a terminal
\* status.  (A worker lost before the acknowledgement makes the message ready
\* again: Redeliver.)
C12_AckOnlyAfterTerminal ==
  [][\A w \in Workers :
       (/\ wk[w].pc \in {"returned", "raised"}
        /\ wk'[w].pc = "idle"
        /\ redeliveries' = redeliveries)
         => jobs[wk[w].job].status \in Terminal]_vars

\* C16: a task that exceeded the soft time limit ends with its job in
\* status failed and error_details equal to "task exceeded time limit".
C16_TimeLimitText ==
  \A w \in Workers :
    (wk[w].pc = "raised" /\ wk[w].err = ErrSoftLimit) =>
      /\ jobs[wk[w].job].status = "failed"
      /\ jobs[wk[w].job].error_details = "task exceeded time limit"

\* ------------------------------------------------ ingestion of a file
\* POST /ingest-redundant/{job_id} and IngestionService.ingest_file_to_db.
\* The session's INSERTs are flushed inside its open transaction: under READ
\* COMMITTED no other session sees them before the commit, and a rollback
\* discards them.
OutsideIngest == <<jobVars, normVars, aggVars>>

\* The final UPDATE without total_rows.
CompletedValues_NoTotal(row, total_rows) ==
  [row EXCEPT !.status = "completed",
              !.rows_ingested = total_rows,
              !.started_at = Stamp,
              !.finished_at = Stamp]

\* The values of the UPDATE that ends a run (lines 189-199).
CompletedValues(row, total_rows) ==
  [row EXCEPT !.status = "completed",
              !.total_rows = total_rows,
              !.rows_ingested = total_rows,
              !.started_at = Stamp,
              !.finished_at = Stamp]

\* The values of the UPDATE of the except block (lines 211-217).
FailedValues(row, e) ==
  [row EXCEPT !.status = "failed", !.error_details = e, !.finished_at = Stamp]

\* MetricsDB.calculate_global_metrics: one aggregate SELECT over the
\* committed rows of the job; an aggregate over no rows is one row with
\* COUNT(*) = 0 and NULL in every other column.  The result is the set of
\* its <<column, value>> pairs.
CalculateGlobalMetrics ==
  {<<"total_requests", request_logs>>,
   <<"avg_response_time", IF request_logs = 0 THEN "NULL" ELSE "value">>}

\* format_global_metrics without the check of total_requests.
FormatGlobalMetrics_NoZeroCheck(raw) ==
  raw

\* MetricsDB_Formatter.format_global_metrics: {} when total_requests is 0
\* (or NULL), otherwise the GlobalMetrics computed from the row.
FormatGlobalMetrics(raw) ==
  IF \E kv \in raw : kv[1] = "total_requests" /\ kv[2] = 0 THEN {} ELSE raw

\* save_upload_file: the file is stored and its ingestion_jobs row committed.
SaveUploadFile(f) ==
  /\ ~ijob.exists
  /\ ijob' = NewIngestionJob
  /\ upfile' = f
  /\ UNCHANGED <<request_logs, ing>>
  /\ UNCHANGED OutsideIngest

\* The route loads the job and answers 400 unless its status is pending;
\* otherwise it calls ingest_file_to_db, which loads the job again, sets
\* total_rows = 0 and builds the chunk generator (lines 133-157).
StartIngestion(s) ==
  /\ FirstIdle(ing, IngestSessions, s)
  /\ ijob.exists
  /\ ing' = [ing EXCEPT ![s].pc = IF ijob.status = "pending" THEN "chunks" ELSE "done"]
  /\ UNCHANGED <<ijob, request_logs, upfile>>
  /\ UNCHANGED OutsideIngest

\* One turn of the loop over the chunks (lines 161-186): an empty dataframe
\* is skipped, otherwise its rows are added and flushed and total_rows
\* grows by their number.  The generator, the construction of a RequestLog
\* or the flush may raise.
IngestChunk(s, ok) ==
  /\ ing[s].pc = "chunks"
  /\ ing[s].i <= Len(upfile)
  /\ ing' = IF ok
              THEN [ing EXCEPT ![s].i = @ + 1,
                               ![s].staged = @ + upfile[ing[s].i],
                               ![s].total_rows = @ + upfile[ing[s].i]]
              ELSE [ing EXCEPT ![s].pc = "except"]
  /\ UNCHANGED <<ijob, request_logs, upfile>>
  /\ UNCHANGED OutsideIngest

\* After the last chunk: the UPDATE of the job and the commit (lines
\* 189-202), which makes the flushed rows and the new status visible
\* together.  Either statement may raise.
IngestFinish(s, ok) ==
  /\ ing[s].pc = "chunks"
  /\ ing[s].i > Len(upfile)
  /\ IF ok
       THEN /\ ijob' = CompletedValues(ijob, ing[s].total_rows)
            /\ request_logs' = request_logs + ing[s].staged
            /\ ing' = [ing EXCEPT ![s].pc = "done", ![s].staged = 0,
                                  ![s].total_rows = 0, ![s].i = 1]
       ELSE /\ ing' = [ing EXCEPT ![s].pc = "except"]
            /\ UNCHANGED <<ijob, request_logs>>
  /\ UNCHANGED upfile
  /\ UNCHANGED OutsideIngest

\* The except block (lines 206-219): the rollback discards the flushed rows,
\* then the job is updated to failed and the call raises.  The rollback
\* expires the loaded job object, so job.id in the WHERE clause needs a load
\* of the row that the AsyncSession performs only when its set-up allows an
\* implicit load; when it does not, the access raises and the row is left
\* as it is.
IngestExcept(s, marked) ==
  /\ ing[s].pc = "except"
  /\ ijob' = IF marked THEN FailedValues(ijob, ErrIngest) ELSE ijob
  /\ ing' = [ing EXCEPT ![s] = [IdleIngest EXCEPT !.pc = "done"]]
  /\ UNCHANGED <<request_logs, upfile>>
  /\ UNCHANGED OutsideIngest

InitIngest ==
  /\ JobsAtRest
  /\ IngestAtRest
  /\ ReaderAtRest
  /\ StatsAtRest

NextIngest ==
  \/ \E f \in Files : SaveUploadFile(f)
  \/ \E s \in IngestSessions : StartIngestion(s)
  \/ \E s \in IngestSessions, ok \in BOOLEAN : IngestChunk(s, ok)
  \/ \E s \in IngestSessions, ok \in BOOLEAN : IngestFinish(s, ok)
  \/ \E s \in IngestSessions, marked \in BOOLEAN : IngestExcept(s, marked)

SpecIngest == InitIngest /\ [][NextIngest]_vars

\* No ingest_file_to_db call is under way.
NoRunUnderWay == \A s \in IngestSessions : ing[s].pc \in {"idle", "done"}

\* C13: metrics queries keyed by the job see none of the job's records
\* while the job is not completed and all of them once it is; a failed job
\* has error_details set and no visible record.
C13_AllOrNothing ==
  /\ ijob.status # "completed" => request_logs = 0
  /\ ijob.status = "completed" => request_logs = SumSeq(upfile)
  /\ ijob.status = "failed" => ijob.error_details # NoText

\* C14: when no ingestion run is under way, rows_ingested of the job equals
\* the number of request_logs rows that carry its id.
C14_RowsIngestedCountsRows ==
  (ijob.exists /\ NoRunUnderWay) => ijob.rows_ingested = request_logs

\* C15: rows_ingested <= total_rows in every state, and they are equal when
\* the status is completed.
C15_RowsWithinTotal ==
  /\ ijob.rows_ingested <= ijob.total_rows
  /\ ijob.status = "completed" => ijob.rows_ingested = ijob.total_rows

\* A run of a file with records has completed: both counters hold the
\* number of records of the file.
C15_Witness ==
  /\ ijob.status = "completed"
  /\ SumSeq(upfile) > 0
  /\ ijob.total_rows = SumSeq(upfile)
  /\ ijob.rows_ingested = SumSeq(upfile)

OutsideReader == <<jobVars, ingVars, aggVars>>
ChunkSizes == 1..MaxChunkSize

\* ingestion/schema.py
metrics_of_interest ==
  {"http_req_duration", "http_req_blocked", "http_req_connecting",
   "http_req_tls_handshaking", "http_req_sending", "http_req_waiting",
   "http_req_receiving", "http_req_failed", "http_reqs"}

url_mappings ==
  [u \in {"home", "news", "contact", "login"} |->
     CASE u = "home" -> "https://test.k6.io/"
       [] u = "news" -> "https://test.k6.io/news.php"
       [] u = "contact" -> "https://test.k6.io/contact.php"
       [] u = "login" -> "https://test.k6.io/login.php"]

NaN == -1                \* a missing cell of a dataframe
None == -2               \* row.get(...) of a column the dataframe does not have
NaNText == "NaN"         \* a missing cell of a text column

\* The lines of a file.  json tells what json.loads makes of the line:
\* "invalid" raises JSONDecodeError, "scalar" is valid JSON that is not an
\* object (null, a number, a list), "object" is an object with the fields
\* shown.  The tags name, method and status are the same in every Point of
\* the model, so time and url tell the request groups apart.
PointLines ==
  [json : {"object"}, type : {"Point"},
   metric : {"http_req_duration", "http_req_failed", "vus"},
   time : {1}, url : {"home", "checkout"}, value : {0, 1}]

InvalidLine ==
  [json |-> "invalid", type |-> "", metric |-> "", time |-> 0, url |-> "", value |-> 0]
ScalarLine == [InvalidLine EXCEPT !.json = "scalar"]
MetricLine == [InvalidLine EXCEPT !.json = "object", !.type = "Metric",
                                  !.metric = "http_req_duration"]

Lines == PointLines \cup {InvalidLine, ScalarLine, MetricLine}
InputFiles == UNION {[1..n -> Lines] : n \in 0..MaxLines}

\* process_chunk: the line becomes a record (lines 14-36).
Accepted(line) ==
  /\ line.json = "object"
  /\ line.type = "Point"
  /\ line.metric \in metrics_of_interest

\* process_chunk: obj.get on a value that is not a dict raises
\* AttributeError, which the except clause (JSONDecodeError) does not catch.
LineRaises(line) == line.json = "scalar"

\* process_chunk stops at the first line that raises.
ChunkRaises(buffer) == \E k \in 1..Len(buffer) : LineRaises(buffer[k])

\* process_chunk: the records of the accepted lines, in file order.
process_chunk(buffer) == SelectSeq(buffer, Accepted)

\* The index of the pivot: timestamp, (name, method,) url (, status).
IndexKey(rec) == [timestamp |-> rec.time, url |-> rec.url]

\* Series.map(url_mappings): a value that is not a key becomes NaN.
MapUrl(u) == IF u \in DOMAIN url_mappings THEN url_mappings[u] ELSE NaNText

\* to_pivot_df: one row per index key of the chunk, one column per metric
\* of the chunk, aggfunc = "first"; url mapped, columns renamed, success
\* derived from http_req_failed when the chunk has that column.  The
\* dataframe is the function from the index keys to the rows.
to_pivot_df(recs) ==
  LET ks == 1..Len(recs)
      columns == {recs[k].metric : k \in ks}
      first(g, m) ==
        LET hits == {k \in ks : IndexKey(recs[k]) = g /\ recs[k].metric = m}
        IN  IF hits = {} THEN NaN
            ELSE recs[CHOOSE k \in hits : \A k2 \in hits : k <= k2].value
  IN  [g \in {IndexKey(recs[k]) : k \in ks} |->
         [timestamp |-> g.timestamp,
          url |-> MapUrl(g.url),
          response_time_ms |->
            IF "http_req_duration" \in columns
              THEN first(g, "http_req_duration") ELSE None,
          success |->
            IF "http_req_failed" \in columns
              THEN (IF first(g, "http_req_failed") = 0 THEN "True" ELSE "False")
              ELSE "None"]]

\* The dataframes normalizer_k6_json has yielded after one more buffer: an
\* empty dataframe is not yielded.
Yielded(out, buffer) ==
  LET df_chunk == to_pivot_df(process_chunk(buffer))
  IN  IF DOMAIN df_chunk = {} THEN out ELSE Append(out, df_chunk)

\* normalizer_k6_json run to its end on the lines from position i + 1.
RECURSIVE ReadFrom(_, _, _, _)
ReadFrom(ls, cs, i, out) ==
  LET n == IF i + cs <= Len(ls) THEN cs ELSE Len(ls) - i
      buffer == SubSeq(ls, i + 1, i + n)
  IN  IF n = 0 THEN [pc |-> "done", i |-> i, out |-> out]
      ELSE IF ChunkRaises(buffer) THEN [pc |-> "raised", i |-> i, out |-> out]
      ELSE IF n < cs THEN [pc |-> "done", i |-> i + n, out |-> Yielded(out, buffer)]
      ELSE ReadFrom(ls, cs, i + n, Yielded(out, buffer))

normalizer_k6_json(ls, cs) == ReadFrom(ls, cs, 0, <<>>)

\* The rows the generator has yielded, each with its index key and the
\* number of the dataframe it is in.
Emitted(out) ==
  UNION {{[chunk |-> k, key |-> g, row |-> out[k][g]] : g \in DOMAIN out[k]} :
           k \in 1..Len(out)}

\* The rows as a bag: each <<index key, row>> with the number of times the
\* generator yielded it.
RowBag(out) ==
  [x \in {<<e.key, e.row>> : e \in Emitted(out)} |->
     Cardinality({e \in Emitted(out) : <<e.key, e.row>> = x})]

\* The file without its k-th line.
Remove(ls, k) == SubSeq(ls, 1, k - 1) \o SubSeq(ls, k + 1, Len(ls))

\* One full buffer: i % chunk_size = 0 (lines 46-53).
ReaderChunk ==
  /\ nr.pc = "reading"
  /\ nr.i + chunk_size <= Len(lines)
  /\ LET buffer == SubSeq(lines, nr.i + 1, nr.i + chunk_size) IN
       nr' = IF ChunkRaises(buffer)
               THEN [nr EXCEPT !.pc = "raised"]
               ELSE [nr EXCEPT !.i = @ + chunk_size, !.out = Yielded(@, buffer)]
  /\ UNCHANGED <<lines, chunk_size>>
  /\ UNCHANGED OutsideReader

\* End of the file: the leftover buffer, if any (lines 54-58).
ReaderLeftover ==
  /\ nr.pc = "reading"
  /\ nr.i + chunk_size > Len(lines)
  /\ LET buffer == SubSeq(lines, nr.i + 1, Len(lines)) IN
       nr' = IF buffer = <<>> THEN [nr EXCEPT !.pc = "done"]
             ELSE IF ChunkRaises(buffer) THEN [nr EXCEPT !.pc = "raised"]
             ELSE [nr EXCEPT !.pc = "done", !.i = Len(lines),
                             !.out = Yielded(@, buffer)]
  /\ UNCHANGED <<lines, chunk_size>>
  /\ UNCHANGED OutsideReader

InitReader ==
  /\ JobsAtRest
  /\ IngestAtRest
  /\ StatsAtRest
  /\ lines \in InputFiles
  /\ chunk_size \in ChunkSizes
  /\ nr = [IdleReader EXCEPT !.pc = "reading"]

NextReader ==
  \/ ReaderChunk
  \/ ReaderLeftover

SpecReader == InitReader /\ [][NextReader]_vars

\* C17: the url of a canonical record is the mapped value when the raw url
\* tag is a key of the alias mapping, and the raw url tag itself, unchanged,
\* when it is not.
C17_UnknownUrlUnchanged ==
  \A e \in Emitted(nr.out) :
    e.row.url = IF e.key.url \in DOMAIN url_mappings
                  THEN url_mappings[e.key.url] ELSE e.key.url

\* C18: when the reader has finished, every request group with an accepted
\* line has exactly one canonical record, and the records are the same as
\* under every other chunk size.
C18_OneRecordPerGroup ==
  nr.pc = "done" =>
    /\ \A k \in 1..Len(lines) :
         Accepted(lines[k]) =>
           Cardinality({e \in Emitted(nr.out) : e.key = IndexKey(lines[k])}) = 1
    /\ \A cs \in ChunkSizes :
         RowBag(nr.out) = RowBag(normalizer_k6_json(lines, cs).out)

\* C19: the reader never aborts on a line that is not an accepted Point,
\* and when it has finished its records are those of the same file without
\* that line.
C19_BadLineSkipped ==
  /\ nr.pc # "raised"
  /\ nr.pc = "done" =>
       \A k \in 1..Len(lines) :
         ~Accepted(lines[k]) =>
           RowBag(nr.out) = RowBag(normalizer_k6_json(Remove(lines, k), chunk_size).out)

\* ------------------------------------------ the life of a job, task by task
\* Every operation that writes the jobs table, with retry_job called with
\* either value of force_retry: the handlers create the job, a worker runs
\* its task, a lost worker makes the broker deliver the task again, and
\* retry_job calls arrive while tasks run.
WorkerLost(w) == Redeliver(w, TRUE)

NextJobLife ==
  \/ \E j \in JobIds, kind \in JobType, enqueued \in BOOLEAN : CreateJob(j, kind, enqueued)
  \/ \E r \in Sessions, j \in JobIds, f \in BOOLEAN : ServiceRetry(r, j, f)
  \/ \E r \in Sessions : RetryJobCommit(r)
  \/ \E w \in Workers, j \in JobIds : Deliver(w, j)
  \/ \E w \in Workers : WorkerStartCommit(w)
  \/ \E w \in Workers : WorkerStartRefresh(w)
  \/ \E w \in Workers, ok \in BOOLEAN : WorkerPipeline(w, ok)
  \/ \E w \in Workers, caught \in BOOLEAN : SoftTimeLimit(w, caught)
  \/ \E w \in Workers : WorkerReload(w)
  \/ \E w \in Workers : WorkerFinish(w)
  \/ \E w \in Workers : Ack(w)
  \/ \E w \in Workers : WorkerLost(w)

SpecJobLife == Init /\ [][NextJobLife]_vars

\* The task of worker w has written in_progress and has not ended.
Running(w) == wk[w].pc \in {"start_refresh", "pipeline", "finish"}

\* C22: of two workers that process tasks of the same job at the same time,
\* at most one performs the transition to in_progress and goes on to the
\* pipeline.
C22_OneWorkerStarts ==
  \A w1, w2 \in Workers :
    (w1 # w2 /\ Running(w1) /\ Running(w2)) => wk[w1].job # wk[w2].job

\* C23: the status of a job that is in_progress changes only by the
\* completion or failure update of a worker running its task; no retry_job
\* call moves an in_progress job to pending.
C23_InProgressLeftByWorker ==
  [][\A j \in JobIds :
       (jobs[j].status = "in_progress" /\ jobs'[j].status # "in_progress")
         => /\ jobs'[j].status \in Terminal
            /\ \E w \in Workers :
                 /\ wk[w].pc = "finish" /\ wk[w].job = j
                 /\ wk'[w].pc \in {"returned", "raised"}]_vars

\* C28: can_retry is true in every state of every job, and a retry_job call
\* that is refused is never refused by the can_retry guard: the job was
\* missing or its status was not failed.
C28_CanRetryAlwaysTrue ==
  /\ [](\A j \in JobIds : jobs[j].exists => jobs[j].can_retry)
  /\ [][(RetryCalled /\ lastCall'.result = "error" /\ jobs[lastCall'.job].exists)
          => (jobs[lastCall'.job].can_retry
              /\ jobs[lastCall'.job].status # "failed")]_vars

\* A job that was retried has failed again, with its error recorded, and
\* can still be retried.
C28_Witness ==
  \E j \in JobIds :
    /\ jobs[j].status = "failed"
    /\ jobs[j].error_details # NoText
    /\ jobs[j].retry_count >= 1
    /\ jobs[j].can_retry

\* ------------------------------------------------------- ReservoirSampler
OutsideSampler == <<jobVars, ingVars, normVars, stream, fed, gagg, eagg>>
SampleValues == {0, 5, 10}
Percentiles == {50, 90}

\* update that appends whatever the capacity.
SamplerUpdate_AlwaysAppend(smp, x, idx) ==
  [smp EXCEPT !.count = @ + 1, !.sample = Append(@, x)]

\* ReservoirSampler.update (utility.py:48-55); idx is the value
\* random.randint(0, self.count - 1) returns, drawn after count was
\* increased.
SamplerUpdate(smp, x, idx) ==
  IF Len(smp.sample) < smp.size
    THEN [smp EXCEPT !.count = @ + 1, !.sample = Append(@, x)]
    ELSE IF idx < smp.size
      THEN [smp EXCEPT !.count = @ + 1, !.sample[idx + 1] = x]
      ELSE [smp EXCEPT !.count = @ + 1]

\* The k-th smallest element of a non-empty sequence of numbers (k from 1).
KthSmallest(q, k) ==
  CHOOSE v \in {q[i] : i \in 1..Len(q)} :
    /\ Cardinality({i \in 1..Len(q) : q[i] < v}) < k
    /\ Cardinality({i \in 1..Len(q) : q[i] <= v}) >= k

\* numpy.percentile(sample, p) with its default linear interpolation (and
\* PERCENTILE_CONT(p / 100) of PostgreSQL): the value at position
\* p / 100 * (n - 1) of the sorted values.
PercentileOf(q, p) ==
  LET n == Len(q)
      pos == p * (n - 1)
      lo == pos \div 100
      hi == IF lo + 1 < n THEN lo + 1 ELSE lo
      vlo == KthSmallest(q, lo + 1)
      vhi == KthSmallest(q, hi + 1)
  IN  Num(100 * vlo + (pos % 100) * (vhi - vlo), 100)

\* ReservoirSampler.percentile (utility.py:57-60).
SamplerPercentile(smp, p) ==
  IF smp.sample = <<>> THEN NullNum ELSE PercentileOf(smp.sample, p)

RsvUpdate(x, idx) ==
  /\ Len(upd) < MaxUpdates
  /\ rsv' = SamplerUpdate(rsv, x, idx)
  /\ upd' = Append(upd, x)
  /\ UNCHANGED OutsideSampler

InitSampler ==
  /\ JobsAtRest
  /\ IngestAtRest
  /\ ReaderAtRest
  /\ stream = <<>>
  /\ fed = <<>>
  /\ gagg = NewGlobal
  /\ eagg = [u \in Urls |-> NewEndpoint]
  /\ rsv \in {NewSampler(size) : size \in 0..MaxSize}
  /\ upd = <<>>

NextSampler ==
  \E x \in SampleValues, idx \in 0..rsv.count : RsvUpdate(x, idx)

SpecSampler == InitSampler /\ [][NextSampler]_vars

\* C27: after any sequence of updates of a sampler of capacity K, count is
\* the number of updates, the buffer has min(count, K) elements, each of
\* them a value passed to an update, and percentile is null exactly when
\* the buffer is empty.
C27_ReservoirInvariant ==
  /\ rsv.count = Len(upd)
  /\ Len(rsv.sample) = IF rsv.count < rsv.size THEN rsv.count ELSE rsv.size
  /\ \A i \in 1..Len(rsv.sample) : \E k \in 1..Len(upd) : rsv.sample[i] = upd[k]
  /\ \A p \in Percentiles : SamplerPercentile(rsv, p).null <=> Len(rsv.sample) = 0

\* A full sampler of capacity 2 has replaced an element: its buffer is no
\* longer the first two values, and its median lies between its elements.
C27_Witness ==
  /\ rsv.size = 2
  /\ rsv.count = 4
  /\ rsv.sample # SubSeq(upd, 1, 2)
  /\ rsv.sample[1] # rsv.sample[2]
  /\ ~SamplerPercentile(rsv, 50).null

\* ----------------------------------------------------- success of a group
\* The http_req_failed values of the accepted lines of a buffer that belong
\* to the request group g, in file order.
FailedValues_of(buffer, g) ==
  LET recs == process_chunk(buffer)
      hits == {k \in 1..Len(recs) :
                 IndexKey(recs[k]) = g /\ recs[k].metric = "http_req_failed"}
  IN  [hits |-> hits,
       first |-> IF hits = {} THEN NaN
                 ELSE recs[CHOOSE k \in hits : \A k2 \in hits : k <= k2].value]

\* C24: in every dataframe the reader yields, a group that has an
\* http_req_failed row has success true exactly when that value is 0, and a
\* group that has none has success null, whether or not another group of
\* the same chunk has one.
C24_SuccessOfGroup ==
  [][Len(nr'.out) = Len(nr.out) + 1 =>
       LET buffer == SubSeq(lines, nr.i + 1, nr'.i)
           df == nr'.out[Len(nr'.out)]
       IN  \A g \in DOMAIN df :
             LET f == FailedValues_of(buffer, g) IN
               /\ f.hits # {} => (df[g].success = "True" <=> f.first = 0)
               /\ f.hits # {} => df[g].success \in {"True", "False"}
               /\ f.hits = {} => df[g].success = "None"]_vars

\* ------------------------------------------------ the in-memory aggregators
OutsideStats == <<jobVars, ingVars, normVars, rsv, upd>>

\* The canonical records of the model.  url is NaN when the raw url is
\* missing or not a key of url_mappings; a request is successful when its
\* status is below 400 (k6's default for http_req_failed); a record has
\* either all its latency phases or none of them.
Timestamps == {1, 2}
ResponseTimes == {0, 10}
Phases == {[blocked_ms |-> NaN, waiting_ms |-> NaN],
           [blocked_ms |-> 4, waiting_ms |-> 6]}
Records ==
  {[url |-> u, status |-> c, success |-> c < 400, timestamp |-> t,
    response_time_ms |-> rt, blocked_ms |-> ph.blocked_ms,
    waiting_ms |-> ph.waiting_ms] :
     u \in Urls \cup {NaNText}, c \in StatusCodes, t \in Timestamps,
     rt \in ResponseTimes, ph \in Phases}

RECURSIVE Streams(_)
Streams(n) ==
  IF n = 0 THEN {<<>>}
  ELSE Streams(n - 1) \cup
       {Append(q, r) : q \in {x \in Streams(n - 1) : Len(x) = n - 1}, r \in Records}

\* The least and greatest value of a non-empty sequence of numbers.
MinOf(q) == CHOOSE v \in {q[k] : k \in 1..Len(q)} : \A k \in 1..Len(q) : v <= q[k]
MaxOf(q) == CHOOSE v \in {q[k] : k \in 1..Len(q)} : \A k \in 1..Len(q) : v >= q[k]
Column(q, col) == [k \in 1..Len(q) |-> q[k][col]]

\* StreamingStats.update (utility.py:12-19): the running mean is kept as
\* the exact sum.
StatsUpdate(st, x) ==
  [n |-> st.n + 1, sum |-> st.sum + x,
   min_val |-> IF x < st.min_val THEN x ELSE st.min_val,
   max_val |-> IF x > st.max_val THEN x ELSE st.max_val]

RECURSIVE StatsUpdateAll(_, _)
StatsUpdateAll(st, xs) ==
  IF xs = <<>> THEN st ELSE StatsUpdateAll(StatsUpdate(st, Head(xs)), Tail(xs))

\* StreamingStats.avg returns self.mean, which is 0.0 before any update;
\* min and max return None before any update (utility.py:29-39).
StatsAvg(st) == IF st.n = 0 THEN Num(0, 1) ELSE Num(st.sum, st.n)
StatsMin(st) == IF st.n > 0 THEN Num(st.min_val, 1) ELSE NullNum
StatsMax(st) == IF st.n > 0 THEN Num(st.max_val, 1) ELSE NullNum

\* update that keeps the timestamps of the last chunk.
GlobalUpdate_LastChunkTimes(g, chunk) ==
  IF chunk = <<>> THEN g
  ELSE
    [total_requests |-> g.total_requests + Len(chunk),
     success_count |-> g.success_count + Cardinality({k \in 1..Len(chunk) : chunk[k].success}),
     request_status_error |->
       g.request_status_error + Cardinality({k \in 1..Len(chunk) : chunk[k].status >= 400}),
     seen |-> TRUE,
     min_timestamp |-> MinOf(Column(chunk, "timestamp")),
     max_timestamp |-> MaxOf(Column(chunk, "timestamp")),
     status_code_counts |->
       [c \in StatusCodes |->
          g.status_code_counts[c] + Cardinality({k \in 1..Len(chunk) : chunk[k].status = c})],
     response_stats |->
       StatsUpdateAll(g.response_stats, Column(chunk, "response_time_ms")),
     response_sample |-> g.response_sample \o Column(chunk, "response_time_ms")]

\* GlobalMetricsAggregator.update (metrics.py:24-47).  The sampler's
\* capacity (50000) is above every stream of the model, so that it holds
\* every response time in order.
GlobalUpdate(g, chunk) ==
  IF chunk = <<>> THEN g
  ELSE
    [total_requests |-> g.total_requests + Len(chunk),
     success_count |-> g.success_count + Cardinality({k \in 1..Len(chunk) : chunk[k].success}),
     request_status_error |->
       g.request_status_error + Cardinality({k \in 1..Len(chunk) : chunk[k].status >= 400}),
     seen |-> TRUE,
     min_timestamp |->
       IF ~g.seen \/ MinOf(Column(chunk, "timestamp")) < g.min_timestamp
         THEN MinOf(Column(chunk, "timestamp")) ELSE g.min_timestamp,
     max_timestamp |->
       IF ~g.seen \/ MaxOf(Column(chunk, "timestamp")) > g.max_timestamp
         THEN MaxOf(Column(chunk, "timestamp")) ELSE g.max_timestamp,
     status_code_counts |->
       [c \in StatusCodes |->
          g.status_code_counts[c] + Cardinality({k \in 1..Len(chunk) : chunk[k].status = c})],
     response_stats |->
       StatsUpdateAll(g.response_stats, Column(chunk, "response_time_ms")),
     response_sample |-> g.response_sample \o Column(chunk, "response_time_ms")]

\* group[col].dropna().values
DropNa(q) == SelectSeq(q, LAMBDA v : v # NaN)

\* The body of the loop of EndpointMetricsAggregator.update for one group
\* (metrics.py:122-155).
GroupUpdate(e, group) ==
  [total_requests |-> e.total_requests + Len(group),
   success_count |-> e.success_count + Cardinality({k \in 1..Len(group) : group[k].success}),
   request_status_error |->
     e.request_status_error + Cardinality({k \in 1..Len(group) : group[k].status >= 400}),
   seen |-> TRUE,
   min_timestamp |->
     IF ~e.seen \/ MinOf(Column(group, "timestamp")) < e.min_timestamp
       THEN MinOf(Column(group, "timestamp")) ELSE e.min_timestamp,
   max_timestamp |->
     IF ~e.seen \/ MaxOf(Column(group, "timestamp")) > e.max_timestamp
       THEN MaxOf(Column(group, "timestamp")) ELSE e.max_timestamp,
   s200 |-> e.s200 + Cardinality({k \in 1..Len(group) : group[k].status >= 200 /\ group[k].status < 300}),
   s300 |-> e.s300 + Cardinality({k \in 1..Len(group) : group[k].status >= 300 /\ group[k].status < 400}),
   s400 |-> e.s400 + Cardinality({k \in 1..Len(group) : group[k].status >= 400 /\ group[k].status < 500}),
   s500 |-> e.s500 + Cardinality({k \in 1..Len(group) : group[k].status >= 500 /\ group[k].status < 600}),
   response_stats |->
     StatsUpdateAll(e.response_stats, DropNa(Column(group, "response_time_ms"))),
   response_sample |->
     e.response_sample \o DropNa(Column(group, "response_time_ms")),
   blocked_ms_stats |->
     StatsUpdateAll(e.blocked_ms_stats, DropNa(Column(group, "blocked_ms"))),
   waiting_ms_stats |->
     StatsUpdateAll(e.waiting_ms_stats, DropNa(Column(group, "waiting_ms")))]

\* EndpointMetricsAggregator.update (metrics.py:109-155): groupby("url")
\* leaves out the rows whose url is NaN.
EndpointUpdate(d, chunk) ==
  [u \in Urls |->
     LET group == SelectSeq(chunk, LAMBDA r : r.url = u) IN
       IF group = <<>> THEN d[u] ELSE GroupUpdate(d[u], group)]

\* One call of update of each aggregator with the next n records.
FeedChunk(n) ==
  /\ n >= 1
  /\ SumSeq(fed) + n <= Len(stream)
  /\ LET chunk == SubSeq(stream, SumSeq(fed) + 1, SumSeq(fed) + n) IN
       /\ gagg' = GlobalUpdate(gagg, chunk)
       /\ eagg' = EndpointUpdate(eagg, chunk)
  /\ fed' = Append(fed, n)
  /\ UNCHANGED stream
  /\ UNCHANGED OutsideStats

InitStats ==
  /\ JobsAtRest
  /\ IngestAtRest
  /\ ReaderAtRest
  /\ stream \in Streams(MaxStream)
  /\ fed = <<>>
  /\ gagg = NewGlobal
  /\ eagg = [u \in Urls |-> NewEndpoint]
  /\ rsv = NewSampler(0)
  /\ upd = <<>>

NextStats == \E n \in 1..MaxStream : FeedChunk(n)

SpecStats == InitStats /\ [][NextStats]_vars

\* The count-based figures of an aggregator (or of one endpoint's entry).
GlobalCounts(g) ==
  <<g.total_requests, g.success_count, g.request_status_error, g.seen,
    g.min_timestamp, g.max_timestamp, StatsMin(g.response_stats),
    StatsMax(g.response_stats), g.status_code_counts>>
EndpointCounts(e) ==
  <<e.total_requests, e.success_count, e.request_status_error, e.seen,
    e.min_timestamp, e.max_timestamp, StatsMin(e.response_stats),
    StatsMax(e.response_stats), e.s200, e.s300, e.s400, e.s500>>

\* C25: however the records were split into non-empty chunks, once they are
\* all fed the aggregators hold the counts, the timestamp and response-time
\* extremes and the status histogram that one chunk with all the records
\* gives.
C25_ChunkingInvariant ==
  SumSeq(fed) = Len(stream) =>
    /\ GlobalCounts(gagg) = GlobalCounts(GlobalUpdate(NewGlobal, stream))
    /\ \A u \in Urls :
         EndpointCounts(eagg[u]) =
           EndpointCounts(EndpointUpdate([v \in Urls |-> NewEndpoint], stream)[u])

\* Two chunks of one record each, the later record second in time order
\* reversed, both of one endpoint.
C25_Witness ==
  /\ fed = <<1, 1>>
  /\ stream[1].url = "/a"
  /\ stream[2].url = "/a"
  /\ stream[2].timestamp < stream[1].timestamp
  /\ stream[2].response_time_ms > stream[1].response_time_ms
  /\ stream[1].status # stream[2].status
  /\ gagg.total_requests = 2
  /\ eagg["/a"].min_timestamp = stream[2].timestamp

\* ------------------------------------------------------------ get_metrics
\* p90 - p50 of two percentiles, both in hundredths.
Gap(p90, p50) == Num(p90.num * p50.den - p50.num * p90.den, p90.den * p50.den)

\* GlobalMetricsAggregator.get_metrics (metrics.py:49-74): {} before any
\* record.
GlobalGetMetrics(g) ==
  IF g.total_requests = 0 THEN [empty |-> TRUE]
  ELSE
    [empty |-> FALSE,
     total_requests |-> g.total_requests,
     success_rate |-> Num(g.success_count, g.total_requests),
     median_response_time |-> PercentileOf(g.response_sample, 50),
     avg_response_time |-> StatsAvg(g.response_stats),
     p90_response_time |-> PercentileOf(g.response_sample, 90),
     max_response_time |-> StatsMax(g.response_stats),
     min_response_time |-> StatsMin(g.response_stats),
     request_status_error |-> Num(g.request_status_error, g.total_requests),
     status_2xx |-> Num(g.status_code_counts[200], g.total_requests),
     status_5xx |-> Num(g.status_code_counts[500], g.total_requests)]

\* EndpointMetricsAggregator.get_metrics (metrics.py:157-200): one entry per
\* url of self.data with at least one request.
EndpointGetMetrics(d) ==
  [u \in {v \in Urls : d[v].total_requests # 0} |->
     LET e == d[u]
         p90 == IF e.response_sample = <<>> THEN NullNum
                ELSE PercentileOf(e.response_sample, 90)
         p50 == IF e.response_sample = <<>> THEN NullNum
                ELSE PercentileOf(e.response_sample, 50)
     IN  [url |-> u,
          total_requests |-> e.total_requests,
          success_rate |-> Num(e.success_count, e.total_requests),
          median_response_time |-> p50,
          avg_response_time |-> StatsAvg(e.response_stats),
          p90_response_time |-> p90,
          min_response_time |-> StatsMin(e.response_stats),
          max_response_time |-> StatsMax(e.response_stats),
          tail_latency_gap |->
            IF ~p90.null /\ ~p50.null THEN Gap(p90, p50) ELSE NullNum,
          request_status_error |-> Num(e.request_status_error, e.total_requests),
          blocked_ms |-> StatsAvg(e.blocked_ms_stats),
          waiting_ms |-> StatsAvg(e.waiting_ms_stats),
          status_2xx |-> Num(e.s200, e.total_requests),
          status_3xx |-> Num(e.s300, e.total_requests),
          status_4xx |-> Num(e.s400, e.total_requests),
          status_5xx |-> Num(e.s500, e.total_requests)]]

\* The sum of total_requests over the entries of an endpoint result.
RECURSIVE SumTotals(_, _)
SumTotals(m, us) ==
  IF us = {} THEN 0
  ELSE LET u == CHOOSE v \in us : TRUE
       IN  m[u].total_requests + SumTotals(m, us \ {u})

\* C30: once a stream is fed to both aggregators, the total_requests of the
\* endpoint entries add up to the global total_requests, records with a
\* missing or unmapped url included.
C30_EndpointTotalsAddUp ==
  (SumSeq(fed) = Len(stream) /\ stream # <<>>) =>
    SumTotals(EndpointGetMetrics(eagg), DOMAIN EndpointGetMetrics(eagg))
      = GlobalGetMetrics(gagg).total_requests

\* C26: an accumulator without an update reports avg, min and max as null,
\* and so the endpoint entry reports null for the average of a latency
\* phase none of its records has.
C26_EmptyStatsAreNull ==
  \A u \in DOMAIN EndpointGetMetrics(eagg) :
    /\ eagg[u].blocked_ms_stats.n = 0 =>
         /\ StatsAvg(eagg[u].blocked_ms_stats).null
         /\ StatsMin(eagg[u].blocked_ms_stats).null
         /\ StatsMax(eagg[u].blocked_ms_stats).null
         /\ EndpointGetMetrics(eagg)[u].blocked_ms.null
    /\ eagg[u].waiting_ms_stats.n = 0 =>
         /\ StatsAvg(eagg[u].waiting_ms_stats).null
         /\ EndpointGetMetrics(eagg)[u].waiting_ms.null

\* --------------------------------------------- the database-side metrics
\* A stream can be persisted when every record has a url: request_logs.url
\* is not nullable (request_logs.py:19).
Persistable(rows) == \A k \in 1..Len(rows) : rows[k].url # NaNText

\* SUM and AVG of a column: NULLs are skipped, and AVG over no value is
\* NULL.
SqlSum(q) == SumSeq(DropNa(q))
SqlAvg(q) == IF DropNa(q) = <<>> THEN NullNum ELSE Num(SqlSum(q), Len(DropNa(q)))
Coalesce0(q) == [k \in 1..Len(q) |-> IF q[k] = NaN THEN 0 ELSE q[k]]

\* The aggregate columns the two SELECTs share, over the rows of one group
\* (metrics_db.py:24-39 and 54-75).
SqlAggregates(rows) ==
  [total_requests |-> Len(rows),
   success_count |-> Cardinality({k \in 1..Len(rows) : rows[k].success}),
   avg_response_time |-> SqlAvg(Column(rows, "response_time_ms")),
   median_response_time |-> PercentileOf(Column(rows, "response_time_ms"), 50),
   p90_response_time |-> PercentileOf(Column(rows, "response_time_ms"), 90),
   max_response_time |-> Num(MaxOf(Column(rows, "response_time_ms")), 1),
   min_response_time |-> Num(MinOf(Column(rows, "response_time_ms")), 1),
   avg_blocked_ms |-> SqlAvg(Coalesce0(Column(rows, "blocked_ms"))),
   avg_waiting_ms |-> SqlAvg(Column(rows, "waiting_ms")),
   error_count |-> Cardinality({k \in 1..Len(rows) : rows[k].status >= 400}),
   status_2xx |-> Cardinality({k \in 1..Len(rows) : rows[k].status >= 200 /\ rows[k].status < 300}),
   status_3xx |-> Cardinality({k \in 1..Len(rows) : rows[k].status >= 300 /\ rows[k].status < 400}),
   status_4xx |-> Cardinality({k \in 1..Len(rows) : rows[k].status >= 400 /\ rows[k].status < 500}),
   status_5xx |-> Cardinality({k \in 1..Len(rows) : rows[k].status >= 500 /\ rows[k].status < 600})]

\* MetricsDB.calculate_global_metrics (metrics_db.py:18-45) over a
\* non-empty table.
calculate_global_metrics(rows) == SqlAggregates(rows)

\* MetricsDB.calculate_endpoint_metrics (metrics_db.py:47-82): one row per
\* url of the table.
calculate_endpoint_metrics(rows) ==
  [u \in {rows[k].url : k \in 1..Len(rows)} |->
     SqlAggregates(SelectSeq(rows, LAMBDA r : r.url = u))]

\* MetricsDB_Formatter.format_global_metrics (metrics_db.py:186-215).
format_global_metrics(raw) ==
  IF raw.total_requests = 0 THEN [empty |-> TRUE]
  ELSE
    [empty |-> FALSE,
     total_requests |-> raw.total_requests,
     success_rate |-> Num(raw.success_count, raw.total_requests),
     median_response_time |-> raw.median_response_time,
     avg_response_time |-> raw.avg_response_time,
     p90_response_time |-> raw.p90_response_time,
     max_response_time |-> raw.max_response_time,
     min_response_time |-> raw.min_response_time,
     request_status_error |-> Num(raw.error_count, raw.total_requests),
     status_2xx |-> Num(raw.status_2xx, raw.total_requests),
     status_5xx |-> Num(raw.status_5xx, raw.total_requests)]

\* The truth value Python gives a number or None.
Truthy(x) == ~x.null /\ x.num # 0

\* MetricsDB_Formatter.format_endpoint_metrics (metrics_db.py:217-259).
format_endpoint_metrics(raw_results) ==
  [u \in DOMAIN raw_results |->
     LET row == raw_results[u] IN
       [url |-> u,
        total_requests |-> row.total_requests,
        success_rate |-> Num(row.success_count, row.total_requests),
        median_response_time |-> row.median_response_time,
        avg_response_time |-> row.avg_response_time,
        p90_response_time |-> row.p90_response_time,
        min_response_time |-> row.min_response_time,
        max_response_time |-> row.max_response_time,
        tail_latency_gap |->
          IF Truthy(row.p90_response_time) /\ Truthy(row.median_response_time)
            THEN Gap(row.p90_response_time, row.median_response_time)
            ELSE NullNum,
        request_status_error |-> Num(row.error_count, row.total_requests),
        blocked_ms |-> row.avg_blocked_ms,
        waiting_ms |-> row.avg_waiting_ms,
        status_2xx |-> Num(row.status_2xx, row.total_requests),
        status_3xx |-> Num(row.status_3xx, row.total_requests),
        status_4xx |-> Num(row.status_4xx, row.total_requests),
        status_5xx |-> Num(row.status_5xx, row.total_requests)]]

\* Two metric records agree on each of the given fields.
SameOn(a, b, fields) == \A f \in fields : NumEq(a[f], b[f])

\* C21: once a stream that can be persisted is fed, the in-memory
\* aggregators give the counts, the response-time extremes, the per-phase
\* averages and the tail latency gap that the database queries and the
\* formatter give over the same records.
C21_MemoryEqualsDatabase ==
  (SumSeq(fed) = Len(stream) /\ stream # <<>> /\ Persistable(stream)) =>
    LET mem == EndpointGetMetrics(eagg)
        db == format_endpoint_metrics(calculate_endpoint_metrics(stream))
        gmem == GlobalGetMetrics(gagg)
        gdb == format_global_metrics(calculate_global_metrics(stream))
    IN  /\ gmem.total_requests = gdb.total_requests
        /\ SameOn(gmem, gdb, {"success_rate", "request_status_error",
                              "status_2xx", "status_5xx",
                              "min_response_time", "max_response_time"})
        /\ DOMAIN mem = DOMAIN db
        /\ \A u \in DOMAIN mem :
             /\ mem[u].total_requests = db[u].total_requests
             /\ SameOn(mem[u], db[u],
                       {"success_rate", "request_status_error", "status_2xx",
                        "status_3xx", "status_4xx", "status_5xx",
                        "min_response_time", "max_response_time",
                        "blocked_ms", "waiting_ms", "tail_latency_gap"})

\* --------------------------------------- the upload and its ingestion task
OutsideUpload == <<request_logs, upfile, ing, normVars, aggVars>>

\* upload_file (upload.py:38-48): save_upload_file commits the
\* ingestion_jobs row, create_job commits the jobs row that references it,
\* then process_file_ingestion.delay publishes the task; when delay raises
\* the handler answers 500 and both rows stay.
UploadFile(j, enqueued) ==
  /\ ~jobs[j].exists
  /\ ~ijob.exists
  /\ ijob' = NewIngestionJob
  /\ jobs' = [jobs EXCEPT ![j] = NewJob("ingestion")]
  /\ queue' = [queue EXCEPT ![j] = IF enqueued THEN @ + 1 ELSE @]
  /\ UNCHANGED <<wk, rs, lastCall, clock, runs, okRetries, retryCalls, redeliveries>>
  /\ UNCHANGED OutsideUpload

\* The pipeline of the ingestion task with its effect on the ingestion_jobs
\* row: on clean end of file the promotion commits status = completed, on
\* a failure the row is committed with status = failed and the error is
\* raised to the task.
TaskPipeline(w, ok) ==
  /\ wk[w].pc = "pipeline"
  /\ runs' = [runs EXCEPT ![wk[w].job] = @ + 1]
  /\ wk' = [wk EXCEPT ![w].pc = "finish",
                      ![w].err = IF ok THEN NoText ELSE ErrPipeline]
  /\ ijob' = IF ok THEN CompletedValues(ijob, ijob.total_rows)
             ELSE FailedValues(ijob, ErrIngest)
  /\ UNCHANGED <<jobs, queue, rs, lastCall, clock, okRetries, retryCalls, redeliveries>>
  /\ UNCHANGED OutsideUpload

NextUpload ==
  \/ \E j \in JobIds, enqueued \in BOOLEAN : UploadFile(j, enqueued)
  \/ \E r \in Sessions, j \in JobIds, f \in BOOLEAN : RouterRetry(r, j, f)
  \/ \E r \in Sessions : RetryJobCommit(r)
  \/ \E w \in Workers, j \in JobIds : Deliver(w, j)
  \/ \E w \in Workers : WorkerStartCommit(w)
  \/ \E w \in Workers : WorkerStartRefresh(w)
  \/ \E w \in Workers, ok \in BOOLEAN : TaskPipeline(w, ok)
  \/ \E w \in Workers : WorkerReload(w)
  \/ \E w \in Workers : WorkerFinish(w)
  \/ \E w \in Workers : Ack(w)
  \/ \E w \in Workers, lost \in BOOLEAN : Redeliver(w, lost)

SpecUpload == Init /\ [][NextUpload]_vars

\* C29: an ingestion Job that is completed references an ingestion job that
\* is completed, and an ingestion Job that is failed with the pipeline's
\* error references an ingestion job that is failed.
C29_JobAgreesWithIngestionJob ==
  \A j \in JobIds :
    (jobs[j].exists /\ jobs[j].job_type = "ingestion") =>
      /\ jobs[j].status = "completed" => ijob.status = "completed"
      /\ (jobs[j].status = "failed" /\ jobs[j].error_details = ErrPipeline) =>
           ijob.status = "failed"

====
